---- MODULE Spec2Model ----
(***************************************************************************)
(* Model of s3-rest.py, the command line front end of the S3 REST client.  *)
(* One run of the script is one behaviour: the command line arguments and  *)
(* the environment (configuration file, payload file, server answer) are   *)
(* fixed in the initial state, and the script's statements are executed    *)
(* in program order, one block per action.                                 *)
(*                                                                         *)
(* A Python str is a sequence of one-character strings; a dict is the      *)
(* sequence of its <<key, value>> items in insertion order.                *)
(***************************************************************************)
EXTENDS Integers, Sequences, FiniteSets

VARIABLES
    args,             \* argparse namespace (line 125), read only
    env,              \* files on disk and the server's answer, read only
    pc,               \* position of the script
    failed,           \* "none", or the exception that ended the run
    params,           \* line 127-129
    headers,          \* line 130-132
    payload,          \* line 139-147
    payload_is_file,  \* line 138, 148
    config,           \* line 150-156
    calls,            \* the invocations of s3.send_s3_request, in order
    response,         \* line 159
    stdout,           \* lines printed to sys.stdout
    stderr,           \* lines printed to sys.stderr
    executed          \* the blocks after the request that ran to their end

vars == <<args, env, pc, failed, params, headers, payload, payload_is_file,
          config, calls, response, stdout, stderr, executed>>

(***************************************************************************)
(* Bounds of the checked input sets.                                       *)
(***************************************************************************)
MaxParamLen == 6
MaxSubstLen == 4
MaxBodyLen == 2
MaxOverrideLen == 5
MaxHeaderKeysLen == 3

(***************************************************************************)
(* Python values.                                                          *)
(***************************************************************************)
\* None, where a str is expected
None == <<"<None>">>
\* params / headers when the option is absent (a dict built from a non-empty
\* option string is never empty, so the empty item list is free for None)
NoDict == <<>>
\* truth value of an Optional[str] in an if
Truthy(s) == s # None /\ s # <<>>

\* every str over the alphabet of at most n characters
Strings(alphabet, n) == UNION {[1..k -> alphabet] : k \in 0..n}

\* index of the first occurrence of character c in s, 0 when there is none
FirstIndex(s, c) ==
    IF \E i \in 1..Len(s) : s[i] = c
    THEN CHOOSE i \in 1..Len(s) : s[i] = c /\ \A j \in 1..(i - 1) : s[j] # c
    ELSE 0

\* str.split(sep, maxsplit) for a one-character sep; maxsplit -1 is unlimited
RECURSIVE split(_, _, _)
split(s, sep, maxsplit) ==
    LET i == FirstIndex(s, sep) IN
    IF i = 0 \/ maxsplit = 0
    THEN <<s>>
    ELSE <<SubSeq(s, 1, i - 1)>>
             \o split(SubSeq(s, i + 1, Len(s)), sep,
                      IF maxsplit > 0 THEN maxsplit - 1 ELSE maxsplit)

\* s starts with the non-empty str old
StartsWith(s, old) ==
    Len(old) <= Len(s) /\ SubSeq(s, 1, Len(old)) = old

\* str.replace(old, new): all non-overlapping occurrences, left to right;
\* an empty old inserts new before every character and at the end
RECURSIVE replace(_, _, _)
replace(s, old, new) ==
    IF old = <<>>
    THEN IF s = <<>> THEN new
         ELSE new \o <<Head(s)>> \o replace(Tail(s), old, new)
    ELSE IF s = <<>> THEN <<>>
         ELSE IF StartsWith(s, old)
              THEN new \o replace(SubSeq(s, Len(old) + 1, Len(s)), old, new)
              ELSE <<Head(s)>> \o replace(Tail(s), old, new)

\* d[k] = v on an insertion-ordered dict
Put(d, k, v) ==
    IF \E i \in 1..Len(d) : d[i][1] = k
    THEN [i \in 1..Len(d) |-> IF d[i][1] = k THEN <<k, v>> ELSE d[i]]
    ELSE Append(d, <<k, v>>)

\* dict.update(other), also the body of dict(list of pairs)
RECURSIVE update(_, _)
update(d, pairs) ==
    IF pairs = <<>> THEN d
    ELSE update(Put(d, pairs[1][1], pairs[1][2]), Tail(pairs))

\* dict(pairs) raises ValueError unless every element has length 2
DictOk(pairs) == \A i \in 1..Len(pairs) : Len(pairs[i]) = 2
dict(pairs) == update(<<>>, pairs)

\* k in d.keys(), d[k]
HasKey(d, k) == \E i \in 1..Len(d) : d[i][1] = k
Get(d, k) == d[CHOOSE i \in 1..Len(d) : d[i][1] = k][2]
Keys(d) == {d[i][1] : i \in 1..Len(d)}

\* [x.split(sep, maxsplit) for x in s.split(";")]
Pairs(s, sep, maxsplit) ==
    LET items == split(s, ";", -1) IN
    [i \in 1..Len(items) |-> split(items[i], sep, maxsplit)]

(***************************************************************************)
(* The script's pure steps.                                                *)
(***************************************************************************)
\* def ok(code)
ok(code) == 200 <= code /\ code < 300

\* line 129 written as line 144 is: split("=") with no maxsplit
ParameterPairsUnlimited(s) == Pairs(s, "=", -1)

\* line 129: the list handed to dict() for --parameters
ParameterPairs(s) == Pairs(s, "=", 1)

\* line 132: the list handed to dict() for --headers
HeaderPairs(s) == Pairs(s, ":", 1)

\* line 144-145: the list handed to dict() for --substitute_parameters
SubstPairs(s) == Pairs(s, "=", -1)

\* line 155: the list handed to dict() for --override-configuration
OverridePairs(s) == Pairs(s, "=", 2)

\* line 146-147: for (k, v) in subst_dict.items(): payload.replace(k, v)
RECURSIVE Substitute(_, _)
Substitute(text, items) ==
    IF items = <<>> THEN text
    ELSE Substitute(replace(text, items[1][1], items[1][2]), Tail(items))

\* line 142-147: the body read from the file, newlines removed, substituted
SubstitutedFile(content, subst) ==
    Substitute(replace(content, <<"\n">>, <<>>), dict(SubstPairs(subst)))

\* line 156: config.update(oc)
OverriddenConfig(doc, override) == update(doc, OverridePairs(override))

\* str.lower() of the output types the runs use
lower(t) == IF t = "Binary" THEN "binary" ELSE t

\* lower case of a header name, as requests' CaseInsensitiveDict compares it
LowerChar(c) == IF c = "A" THEN "a" ELSE IF c = "B" THEN "b" ELSE c
LowerName(n) == [i \in 1..Len(n) |-> LowerChar(n[i])]

\* k in response.headers.keys(), response.headers[k]
InHeaders(h, k) == \E i \in 1..Len(h) : LowerName(h[i][1]) = LowerName(k)
HeaderValue(h, k) ==
    h[CHOOSE i \in 1..Len(h) : LowerName(h[i][1]) = LowerName(k)][2]

\* line 198-199: the list of names, or the str itself when it has no ","
\* (iterating a str yields its characters)
SearchKeys(header_keys) ==
    IF FirstIndex(header_keys, ",") # 0
    THEN split(header_keys, ",", -1)
    ELSE [i \in 1..Len(header_keys) |-> <<header_keys[i]>>]

\* line 200-205: the lines printed by the header search
HeaderLine(h, k) == [kind |-> "header", name |-> k, val |-> HeaderValue(h, k)]
RECURSIVE HeaderLinesOf(_, _)
HeaderLinesOf(h, keys) ==
    IF keys = <<>> THEN <<>>
    ELSE (IF InHeaders(h, keys[1]) THEN <<HeaderLine(h, keys[1])>> ELSE <<>>)
             \o HeaderLinesOf(h, Tail(keys))
HeaderSearch(h, header_keys) ==
    IF FirstIndex(header_keys, ",") = 0 /\ InHeaders(h, header_keys)
    THEN <<HeaderLine(h, header_keys)>>
    ELSE HeaderLinesOf(h, SearchKeys(header_keys))

\* line 192-193: root.findall(query, ns) of a well-formed document, in
\* document order; the query names one tag
findall(elems, query) == SelectSeq(elems, LAMBDA e : e.tag = query[2])
QueryLines(elems, query) ==
    LET n == findall(elems, query) IN
    [i \in 1..Len(n) |-> [kind |-> "query", name |-> <<>>, val |-> n[i].text]]

\* the call with the proxy address written into the configuration's host
SendArgsProxyAsHost(a, cfg, prm, hdr, pl, is_file) ==
    [config |-> IF Truthy(a.proxy) THEN Put(cfg, <<"host">>, a.proxy) ELSE cfg,
     req_method |-> a.method, parameters |-> prm,
     payload |-> pl, sign_payload |-> a.sign_payload,
     payload_is_file_name |-> is_file, bucket_name |-> a.bucket,
     key_name |-> a.key, additional_headers |-> hdr,
     content_file |-> a.content_file, proxy_endpoint |-> a.proxy]

\* line 159-170: the keyword arguments of the call
SendArgs(a, cfg, prm, hdr, pl, is_file) ==
    [config |-> cfg, req_method |-> a.method, parameters |-> prm,
     payload |-> pl, sign_payload |-> a.sign_payload,
     payload_is_file_name |-> is_file, bucket_name |-> a.bucket,
     key_name |-> a.key, additional_headers |-> hdr,
     content_file |-> a.content_file, proxy_endpoint |-> a.proxy]

\* line 174-178: the response summary
SummaryLines(r) ==
    <<[kind |-> "status", name |-> <<>>, val |-> <<>>],
      [kind |-> "headers", name |-> <<>>, val |-> <<>>]>>
    \o (IF r.text.kind # "empty"
        THEN <<[kind |-> "body", name |-> <<>>, val |-> <<>>]>> ELSE <<>>)

\* line 183-188: whether s3.xml_to_text(response.text) is printed
PrintsParsedXml(a, r) ==
    IF ok(r.status_code) THEN lower(a.output_type) = "xml"
    ELSE r.text.kind # "empty"

\* s3.xml_to_text on a body: it returns for a well-formed document; on any
\* other text it may return or raise
XmlToTextOutcomes(text) ==
    IF text.kind = "xml" THEN {"returns"} ELSE {"returns", "raises"}

\* line 174: outfile = sys.stdout if ok(response.status_code) else sys.stderr
outfile(code) == IF ok(code) THEN "stdout" ELSE "stderr"

\* the call repeated once when the transport fails
InvokeWithRetry(cs, call, transport_ok) ==
    IF transport_ok THEN Append(cs, call) ELSE Append(Append(cs, call), call)

\* line 159: the invocations of s3.send_s3_request after the statement
Invoke(cs, call, transport_ok) == Append(cs, call)

(***************************************************************************)
(* Inputs: the command line and the environment of a run.                  *)
(***************************************************************************)
EmptyText == [kind |-> "empty", elems |-> <<>>]
MalformedText == [kind |-> "malformed", elems |-> <<>>]
Element(tag, text) == [tag |-> tag, text |-> text]
\* a ListAllMyBucketsResult with two buckets, a ListBucketResult with keys
\* around a name, and a document with no element below the root
BucketsText ==
    [kind |-> "xml",
     elems |-> <<Element("aws:Name", <<"1">>), Element("aws:Name", <<"2">>)>>]
KeysText ==
    [kind |-> "xml",
     elems |-> <<Element("aws:Key", <<"2">>), Element("aws:Name", <<"3">>),
                 Element("aws:Key", <<"1">>)>>]
RootOnlyText == [kind |-> "xml", elems |-> <<>>]
Texts == {EmptyText, MalformedText, BucketsText, KeysText, RootOnlyText}

NameQuery == <<".//", "aws:Name">>
KeyQuery == <<".//", "aws:Key">>
InvalidQuery == <<".//", "[">>
QueryValid(q) == q[2] # "["

\* response headers: the present names among a, b, ab with their values
HeaderA == <<<<"a">>, <<"1">>>>
HeaderB == <<<<"b">>, <<"2">>>>
HeaderAB == <<<<"a", "b">>, <<"3">>>>
ResponseHeaders ==
    {p \o q \o r : p \in {<<>>, <<HeaderA>>}, q \in {<<>>, <<HeaderB>>},
                   r \in {<<>>, <<HeaderAB>>}}

NoResponse == [status_code |-> 0, headers |-> <<>>, text |-> EmptyText]
Response(code, hdrs, text) ==
    [status_code |-> code, headers |-> hdrs, text |-> text]
\* the edges of the range ok() accepts, a status inside it and one far outside
StatusCodes == {199, 200, 204, 299, 300, 404}

\* the configuration document of the module docstring (line 27-35)
ConfigDoc ==
    <<<<<<"access_key">>, <<"0">>>>, <<<<"secret_key">>, <<"1">>>>,
      <<<<"protocol">>, <<"http">>>>, <<<<"host">>, <<"localhost">>>>,
      <<<<"port">>, <<"8000">>>>>>

ArgsDefault ==
    [bucket |-> None, key |-> None, method |-> <<"g", "e", "t">>,
     payload |-> None, payload_is_file |-> FALSE, sign_payload |-> FALSE,
     parameters |-> None, headers |-> None, content_file |-> None,
     subst_params |-> None, output_type |-> "xml", override_config |-> None,
     proxy |-> None, xml_query |-> None, header_keys |-> None, mute |-> FALSE]

EnvDefault ==
    [config_readable |-> TRUE, config_doc |-> ConfigDoc, file |-> <<"k">>,
     transport_ok |-> TRUE,
     response |-> Response(200, <<HeaderA>>, BucketsText)]

ParamAlphabet == {"a", "b", "=", ";"}
SubstAlphabet == {"k", "v", "=", ";"}
BodyAlphabet == {"k", "\n"}
OverrideAlphabet == {"host", "x", "=", ";"}
HeaderKeysAlphabet == {"a", "B", ","}

Optional(S) == {None} \cup S

\* runs that vary --parameters
ParamsArgs ==
    {[ArgsDefault EXCEPT !.parameters = p] :
        p \in Optional(Strings(ParamAlphabet, MaxParamLen))}

\* runs that vary the payload, its file and --substitute_parameters
BodyArgs ==
    {[ArgsDefault EXCEPT !.payload = b[1], !.payload_is_file = b[2],
                         !.subst_params = x] :
        b \in (Optional(Strings(BodyAlphabet, MaxBodyLen)) \X {FALSE})
                \cup ({None, <<"f">>} \X {TRUE}),
        x \in Optional(Strings(SubstAlphabet, MaxSubstLen))}
BodyEnvs ==
    {[EnvDefault EXCEPT !.file = f] :
        f \in Optional(Strings(BodyAlphabet, MaxBodyLen))}

\* runs that vary --override-configuration and --proxy-endpoint
ConfigArgs ==
    {[ArgsDefault EXCEPT !.override_config = o, !.proxy = x] :
        o \in Optional(Strings(OverrideAlphabet, MaxOverrideLen)),
        x \in {None, <<"proxy">>}}
ConfigEnvs == {[EnvDefault EXCEPT !.config_readable = r] : r \in BOOLEAN}

\* runs that vary the response and the options that read it
SummaryArgs ==
    {[ArgsDefault EXCEPT !.mute = m, !.output_type = o, !.xml_query = q,
                         !.header_keys = h] :
        m \in BOOLEAN, o \in {"xml", "text", "binary", "Binary"},
        q \in {None, NameQuery, KeyQuery, InvalidQuery},
        h \in {None, <<"a">>}}
SummaryEnvs ==
    {[EnvDefault EXCEPT !.response = Response(c, h, t)] :
        c \in StatusCodes, h \in {<<>>, <<HeaderA>>}, t \in Texts}
    \cup {[EnvDefault EXCEPT !.transport_ok = FALSE]}

\* runs that vary --search-headers-keys and the response headers
HeadersArgs ==
    {[ArgsDefault EXCEPT !.header_keys = h, !.mute = m, !.output_type = o] :
        h \in Optional(Strings(HeaderKeysAlphabet, MaxHeaderKeysLen)),
        m \in BOOLEAN, o \in {"xml", "binary"}}
HeadersEnvs ==
    {[EnvDefault EXCEPT !.response = Response(200, h, BucketsText)] :
        h \in ResponseHeaders}

(***************************************************************************)
(* The run.                                                                *)
(***************************************************************************)
InitFrom(A, E) ==
    /\ args \in A
    /\ env \in E
    /\ pc = "parse_args"
    /\ failed = "none"
    /\ params = NoDict
    /\ headers = NoDict
    /\ payload = None
    /\ payload_is_file = FALSE
    /\ config = <<>>
    /\ calls = <<>>
    /\ response = NoResponse
    /\ stdout = <<>>
    /\ stderr = <<>>
    /\ executed = {}

\* line 127-132
ParseArgs ==
    /\ pc = "parse_args"
    /\ LET bad_p == /\ Truthy(args.parameters)
                    /\ ~DictOk(ParameterPairs(args.parameters))
           bad_h == /\ Truthy(args.headers)
                    /\ ~DictOk(HeaderPairs(args.headers))
       IN  /\ failed' = IF bad_p THEN "ValueError:parameters"
                        ELSE IF bad_h THEN "ValueError:headers" ELSE "none"
           /\ pc' = IF bad_p \/ bad_h THEN "done" ELSE "substitute"
           /\ params' = IF Truthy(args.parameters) /\ ~bad_p
                        THEN dict(ParameterPairs(args.parameters))
                        ELSE NoDict
           /\ headers' = IF Truthy(args.headers) /\ ~bad_p /\ ~bad_h
                         THEN dict(HeaderPairs(args.headers))
                         ELSE NoDict
    /\ UNCHANGED <<args, env, payload, payload_is_file, config, calls,
                   response, stdout, stderr, executed>>

\* line 134-148
SubstituteParameters ==
    /\ pc = "substitute"
    /\ LET applies == /\ Truthy(args.payload)
                      /\ args.payload_is_file
                      /\ Truthy(args.subst_params)
           missing == applies /\ env.file = None
           bad == applies /\ ~missing /\ ~DictOk(SubstPairs(args.subst_params))
       IN  /\ failed' = IF missing THEN "FileNotFoundError:payload"
                        ELSE IF bad THEN "ValueError:subst_params" ELSE "none"
           /\ pc' = IF missing \/ bad THEN "done" ELSE "load_config"
           /\ payload' = IF ~applies \/ missing THEN args.payload
                         ELSE IF bad THEN replace(env.file, <<"\n">>, <<>>)
                         ELSE SubstitutedFile(env.file, args.subst_params)
           /\ payload_is_file' = IF applies /\ ~missing /\ ~bad
                                 THEN FALSE ELSE args.payload_is_file
    /\ UNCHANGED <<args, env, params, headers, config, calls, response,
                   stdout, stderr, executed>>

\* line 150-156
LoadConfig ==
    /\ pc = "load_config"
    /\ LET missing == ~env.config_readable
           bad == /\ ~missing
                  /\ Truthy(args.override_config)
                  /\ ~DictOk(OverridePairs(args.override_config))
       IN  /\ failed' = IF missing THEN "FileNotFoundError:config_file"
                        ELSE IF bad THEN "ValueError:override_config"
                        ELSE "none"
           /\ pc' = IF missing \/ bad THEN "done" ELSE "send"
           /\ config' = IF missing THEN config
                        ELSE IF bad \/ ~Truthy(args.override_config)
                        THEN env.config_doc
                        ELSE OverriddenConfig(env.config_doc,
                                              args.override_config)
    /\ UNCHANGED <<args, env, params, headers, payload, payload_is_file,
                   calls, response, stdout, stderr, executed>>

\* line 158-171
SendRequest ==
    /\ pc = "send"
    /\ calls' = Invoke(calls,
                       SendArgs(args, config, params, headers, payload,
                                payload_is_file),
                       env.transport_ok)
    /\ response' = IF env.transport_ok THEN env.response ELSE response
    /\ failed' = IF env.transport_ok THEN "none" ELSE "TransportError"
    /\ pc' = IF env.transport_ok THEN "summary" ELSE "done"
    /\ UNCHANGED <<args, env, params, headers, payload, payload_is_file,
                   config, stdout, stderr, executed>>

\* line 172-188
PrintSummary ==
    /\ pc = "summary"
    /\ \E outcome \in XmlToTextOutcomes(response.text) :
         LET elapsed == [kind |-> "elapsed", name |-> <<>>, val |-> <<>>]
             parsed == [kind |-> "parsed_xml", name |-> <<>>, val |-> <<>>]
             summary == SummaryLines(response)
             to_stdout == outfile(response.status_code) = "stdout"
             binary == lower(args.output_type) = "binary"
             converts == /\ ~args.mute
                         /\ ~binary
                         /\ PrintsParsedXml(args, response)
             raises == converts /\ outcome = "raises"
         IN  /\ stdout' = IF args.mute THEN stdout
                          ELSE stdout \o <<elapsed>>
                                 \o (IF to_stdout THEN summary ELSE <<>>)
                                 \o (IF converts /\ ~raises
                                     THEN <<parsed>> ELSE <<>>)
             /\ stderr' = IF args.mute \/ to_stdout THEN stderr
                          ELSE stderr \o summary
             /\ failed' = IF raises THEN "Error:xml_to_text" ELSE "none"
             /\ pc' = IF raises \/ (~args.mute /\ binary)
                      THEN "done" ELSE "xml_query"
    /\ UNCHANGED <<args, env, params, headers, payload, payload_is_file,
                   config, calls, response, executed>>

\* line 190-195
XmlQuery ==
    /\ pc = "xml_query"
    /\ LET applies == Truthy(args.xml_query) /\ response.text.kind # "empty"
           malformed == applies /\ response.text.kind = "malformed"
           invalid == applies /\ ~malformed /\ ~QueryValid(args.xml_query)
           finds == applies /\ ~malformed /\ ~invalid
       IN  /\ failed' = IF malformed THEN "ParseError"
                        ELSE IF invalid THEN "Error:findall" ELSE "none"
           /\ pc' = IF malformed \/ invalid THEN "done" ELSE "search_headers"
           /\ stdout' = IF finds
                        THEN stdout \o QueryLines(response.text.elems,
                                                  args.xml_query)
                        ELSE stdout
           /\ executed' = IF finds THEN executed \cup {"xml_query"}
                          ELSE executed
    /\ UNCHANGED <<args, env, params, headers, payload, payload_is_file,
                   config, calls, response, stderr>>

\* line 197-205
SearchHeaders ==
    /\ pc = "search_headers"
    /\ LET applies == Truthy(args.header_keys) /\ response.headers # <<>>
       IN  /\ stdout' = IF applies
                        THEN stdout \o HeaderSearch(response.headers,
                                                    args.header_keys)
                        ELSE stdout
           /\ executed' = IF applies THEN executed \cup {"search_headers"}
                          ELSE executed
    /\ pc' = "done"
    /\ UNCHANGED <<args, env, failed, params, headers, payload,
                   payload_is_file, config, calls, response, stderr>>

Next ==
    \/ ParseArgs
    \/ SubstituteParameters
    \/ LoadConfig
    \/ SendRequest
    \/ PrintSummary
    \/ XmlQuery
    \/ SearchHeaders

InitParams == InitFrom(ParamsArgs, {EnvDefault})
InitBody == InitFrom(BodyArgs, BodyEnvs)
InitConfig == InitFrom(ConfigArgs, ConfigEnvs)
InitSummary == InitFrom(SummaryArgs, SummaryEnvs)
InitHeaders == InitFrom(HeadersArgs, HeadersEnvs)
Init == InitSummary

SpecParams == InitParams /\ [][Next]_vars
SpecBody == InitBody /\ [][Next]_vars
SpecConfig == InitConfig /\ [][Next]_vars
SpecSummary == InitSummary /\ [][Next]_vars
SpecHeaders == InitHeaders /\ [][Next]_vars
Spec == Init /\ [][Next]_vars

(***************************************************************************)
(* Properties.                                                             *)
(***************************************************************************)
\* the items of a ";" separated option, and the key and value of an item
\* that holds a "=": the text before and the text after the first "="
Items(s) == split(s, ";", -1)
KeyOf(item) == SubSeq(item, 1, FirstIndex(item, "=") - 1)
ValueOf(item) == SubSeq(item, FirstIndex(item, "=") + 1, Len(item))
KeyValueList(s) ==
    Truthy(s) /\ \A i \in 1..Len(Items(s)) : FirstIndex(Items(s)[i], "=") # 0
\* item i is the last item of the list with its key
LastOfKey(s, i) ==
    \A j \in (i + 1)..Len(Items(s)) : KeyOf(Items(s)[j]) # KeyOf(Items(s)[i])
KindsOf(stream, kinds) == SelectSeq(stream, LAMBDA l : l.kind \in kinds)
SummaryKinds == {"status", "headers", "body"}
Received == response.status_code # 0

\* C1: the request is sent at most once: no call before the send statement,
\* exactly one call once it has run, whatever the status and whether or not
\* the call fails, and never a second call.
RequestSentAtMostOnce ==
    /\ Len(calls) <= 1
    /\ pc \in {"parse_args", "substitute", "load_config", "send"}
           => Len(calls) = 0
    /\ pc \in {"summary", "xml_query", "search_headers"} => Len(calls) = 1
    /\ failed \in {"TransportError", "Error:xml_to_text", "ParseError",
                   "Error:findall"} => Len(calls) = 1
    /\ (pc = "done" /\ failed = "none") => Len(calls) = 1
RequestFailedOnce ==
    pc = "done" /\ failed = "TransportError" /\ Len(calls) = 1

\* C2: with --proxy-endpoint the configuration handed to send_s3_request is
\* the configuration file merged with the overrides, as without a proxy; the
\* proxy address is passed as proxy_endpoint only and is no value of the
\* configuration, so the signed host is never the proxy address.
ProxyTransparency ==
    (Truthy(args.proxy) /\ Len(calls) = 1) =>
        /\ calls[1].config =
               IF Truthy(args.override_config)
               THEN OverriddenConfig(env.config_doc, args.override_config)
               ELSE env.config_doc
        /\ calls[1].proxy_endpoint = args.proxy
        /\ \A k \in Keys(calls[1].config) :
               Get(calls[1].config, k) # args.proxy
        /\ Get(calls[1].config, <<"host">>) \in
               {Get(env.config_doc, <<"host">>)}
                   \cup {ValueOf(Items(args.override_config)[i]) :
                           i \in 1..Len(Items(args.override_config))}
ProxiedWithOverriddenHost ==
    /\ Truthy(args.proxy)
    /\ Len(calls) = 1
    /\ Truthy(args.override_config)
    /\ Get(calls[1].config, <<"host">>) = <<"x">>
    /\ calls[1].proxy_endpoint = <<"proxy">>

\* C3 as stated: every item key=value of --parameters yields the entry
\* key -> value (the text after the first "="), an item "key=" the entry
\* key -> "".
EveryParameterItemKept ==
    KeyValueList(args.parameters) =>
        /\ failed # "ValueError:parameters"
        /\ Len(calls) = 1 =>
               \A i \in 1..Len(Items(args.parameters)) :
                   LET item == Items(args.parameters)[i] IN
                   /\ HasKey(calls[1].parameters, KeyOf(item))
                   /\ Get(calls[1].parameters, KeyOf(item)) = ValueOf(item)

\* C3, amended: every item key=value of --parameters that is the last item
\* with its key yields the entry key -> value (the text after the first
\* "="), "" for an item "key="; the mapping has no other keys.
LastParameterItemKept ==
    KeyValueList(args.parameters) =>
        /\ failed # "ValueError:parameters"
        /\ Len(calls) = 1 =>
               /\ \A i \in 1..Len(Items(args.parameters)) :
                      LET item == Items(args.parameters)[i] IN
                      LastOfKey(args.parameters, i) =>
                          /\ HasKey(calls[1].parameters, KeyOf(item))
                          /\ Get(calls[1].parameters, KeyOf(item))
                                 = ValueOf(item)
               /\ Keys(calls[1].parameters) =
                      {KeyOf(Items(args.parameters)[i]) :
                          i \in 1..Len(Items(args.parameters))}
EmptyAndEqualsValuesSent ==
    /\ args.parameters = <<"a", "=", ";", "b", "=", "=">>
    /\ Len(calls) = 1
    /\ Get(calls[1].parameters, <<"a">>) = <<>>
    /\ Get(calls[1].parameters, <<"b">>) = <<"=">>

\* C4: the header search prints one line per requested name the response
\* carries, in request order, and nothing for any other name.
HeaderLookupExact ==
    "search_headers" \in executed =>
        KindsOf(stdout, {"header"}) =
            HeaderLinesOf(response.headers, split(args.header_keys, ",", -1))

\* C5: an XML query never fails on the body: an empty or malformed body
\* gives no result and no error, a well-formed body the matching texts in
\* document order.
XmlQueryNeverFailsOnBody ==
    (Truthy(args.xml_query) /\ QueryValid(args.xml_query) /\ Received) =>
        /\ failed # "ParseError"
        /\ response.text.kind \in {"empty", "malformed"}
               => KindsOf(stdout, {"query"}) = <<>>
        /\ "xml_query" \in executed
               => KindsOf(stdout, {"query"}) =
                      QueryLines(response.text.elems, args.xml_query)

\* C6: unmuted, the status, headers and textual body go to standard
\* output when the status is 200 and to standard error when it is not 200.
SummaryStreamBy200 ==
    (Received /\ pc # "summary" /\ ~args.mute) =>
        IF response.status_code = 200
        THEN /\ KindsOf(stdout, SummaryKinds) = SummaryLines(response)
             /\ KindsOf(stderr, SummaryKinds) = <<>>
        ELSE /\ KindsOf(stderr, SummaryKinds) = SummaryLines(response)
             /\ KindsOf(stdout, SummaryKinds) = <<>>

\* C7: when the status line went to standard error, nothing of the summary
\* (status, headers, textual body, parsed XML body) is on standard output.
\* Stated for the bodies xml_to_text is known to convert, the well-formed
\* documents, and for the empty body.
ParsedXmlFollowsSummary ==
    (KindsOf(stderr, {"status"}) # <<>> /\ response.text.kind # "malformed")
        => KindsOf(stdout, SummaryKinds \cup {"parsed_xml"}) = <<>>

\* C8: with --substitute_parameters and a payload, the payload sent is the
\* request body (inline, or the content of the named file) with every key
\* replaced by its value, and a body read from a file is sent with
\* payload_is_file_name False.
SubstitutionApplied ==
    (/\ Truthy(args.subst_params)
     /\ DictOk(SubstPairs(args.subst_params))
     /\ Truthy(args.payload)
     /\ Len(calls) = 1) =>
        LET body == IF args.payload_is_file THEN env.file ELSE args.payload
        IN  /\ calls[1].payload =
                   Substitute(body, dict(SubstPairs(args.subst_params)))
            /\ args.payload_is_file => ~calls[1].payload_is_file_name

\* C9: for every list of key=value overrides the configuration sent maps
\* each override key to the text after the first "=" of its (last) item, and
\* every other key of the configuration file keeps its value.
OverridesMerged ==
    (/\ KeyValueList(args.override_config)
     /\ env.config_readable
     /\ pc \notin {"parse_args", "substitute", "load_config"}) =>
        /\ failed # "ValueError:override_config"
        /\ Len(calls) = 1 =>
               /\ \A i \in 1..Len(Items(args.override_config)) :
                      LET item == Items(args.override_config)[i] IN
                      LastOfKey(args.override_config, i) =>
                          /\ HasKey(calls[1].config, KeyOf(item))
                          /\ Get(calls[1].config, KeyOf(item)) = ValueOf(item)
               /\ \A k \in Keys(env.config_doc) :
                      (\A i \in 1..Len(Items(args.override_config)) :
                           KeyOf(Items(args.override_config)[i]) # k)
                          => /\ HasKey(calls[1].config, k)
                             /\ Get(calls[1].config, k)
                                    = Get(env.config_doc, k)

\* C10: a run that received a response and ended without an error has
\* produced the results of a requested XML query (non-empty body) and of a
\* requested header search (non-empty response headers), for every mute flag
\* and output type.
ViewsIndependentOfSummary ==
    (pc = "done" /\ failed = "none" /\ Received) =>
        /\ (Truthy(args.xml_query) /\ response.text.kind # "empty")
               => "xml_query" \in executed
        /\ (Truthy(args.header_keys) /\ response.headers # <<>>)
               => "search_headers" \in executed

====
